---- MODULE Spec2Model ----
(***************************************************************************)
(* Model of the cosmos-upgrade-tracker bot.                                *)
(*                                                                         *)
(*   src/main.py               check_upgrades (the poll pass), main        *)
(*   src/polkachu_upgrades.py  feed client, filter, upgrade cache, time    *)
(*   src/telegram_bot.py       subscription registry, commands, broadcast  *)
(*                                                                         *)
(* Time is counted in whole minutes.  hours_until_upgrade returns float    *)
(* hours; every constant the code compares it with (23, 24, 1.9, 2.1,      *)
(* -0.1, 0.1, and the -1 of an invalid time) is a whole number of minutes, *)
(* so h_left is kept as minutes and the comparisons are exact.             *)
(*                                                                         *)
(* The bot runs on one asyncio event loop: a coroutine runs without        *)
(* interruption up to its next await.  The only await of the poll pass is  *)
(* bot.send_message inside broadcast_message, so the steps of one pass     *)
(* (pc) are interleaved with commands at pc = "sending" only (and          *)
(* between passes, and during the sleep of the error path).                *)
(***************************************************************************)
EXTENDS Integers, Sequences, FiniteSets, TLC

VARIABLES
    now,                \* datetime.utcnow(), in minutes
    last_upgrades,      \* polkachu_upgrades.last_upgrades: network -> cached record
    chat_subscriptions, \* telegram_bot.chat_subscriptions: dict in insertion order
    subsFile,           \* contents of subscriptions.json
    pc,                 \* position of the poll pass (check_upgrades)
    relevant,           \* check_upgrades: the part of `relevant` not yet iterated
    h_left,             \* check_upgrades: h_left of the current upgrade
    alerts_sent,        \* check_upgrades: alerts_sent of the current upgrade
    stage,              \* check_upgrades: which threshold `if` is next (1..3)
    bcast,              \* the running broadcast_message call
    cmds,               \* number of commands handled so far
    hist,               \* observation of the poll passes (history)
    trk,                \* observation of a check_for_new_or_changed_upgrades call
    rt,                 \* observation of save/load round trips
    replies,            \* observation of what the commands reply to the chats
    token               \* TELEGRAM_BOT_TOKEN in the environment of the process

vars == << now, last_upgrades, chat_subscriptions, subsFile, pc, relevant, h_left,
           alerts_sent, stage, bcast, cmds, hist, trk, rt, replies, token >>

-----------------------------------------------------------------------------
(* Bounds of the model                                                     *)

MaxTicks == 2        \* poll ticks in one run of Spec
MaxCmds == 1         \* commands handled in one run of Spec
MaxFeedLen == 2      \* records in one feed response

-----------------------------------------------------------------------------
(* Constants of the program                                                *)

POLL_INTERVAL_SECONDS == 900
SecondsPerMinute == 60
MinutesPerHour == 60
PollMinutes == POLL_INTERVAL_SECONDS \div SecondsPerMinute

\* The allow-list (14 names in the source); two of them are modelled.
SG1_RELEVANT_NETWORKS == {"cosmos", "osmosis"}

\* upgrade.get("network") of a record without the field.
NoneNet == "<None>"
\* A network the feed reports that is not on the allow-list.
OtherNet == "other"

\* estimated_upgrade_time of a feed record: an ISO string that parses to the
\* minute t, a string that does not parse, or None (field missing or null).
TimeAt(t) == [kind |-> "time", t |-> t]
BadTime == [kind |-> "bad", t |-> 0]
NoneTime == [kind |-> "none", t |-> 0]

-----------------------------------------------------------------------------
(* The feed (polkachu_upgrades.py)                                         *)

\* One parsed record.  chain_name is copied by parse_upgrades and read by
\* nothing, and is left out.
Rec(n, v, b, e) ==
    [network |-> n, node_version |-> v, block |-> b, estimated_upgrade_time |-> e]

\* Upgrade times the feed reports.  The first poll tick runs at minute
\* PollMinutes, the k-th at k * PollMinutes.
T24 == TimeAt(PollMinutes + 24 * MinutesPerHour)   \* 24 h after the first tick
T2 == TimeAt(PollMinutes + 2 * MinutesPerHour)     \* 2 h after the first tick
T0 == TimeAt(2 * PollMinutes)                      \* the second tick
TFar == TimeAt(PollMinutes + 50 * MinutesPerHour)  \* 50 h after the first tick
TPast == TimeAt(2 * PollMinutes - 3 * MinutesPerHour) \* 3 h before the second tick

FeedRecords ==
    { Rec("cosmos", "v1", 100, e) : e \in {T24, T2, T0, TFar, TPast, BadTime, NoneTime} }
    \cup { Rec("cosmos", "v2", 100, T24) }
    \cup { Rec("osmosis", "v1", 100, T24) }
    \cup { Rec(OtherNet, "v1", 100, T24), Rec(NoneNet, "v1", 100, T24) }

\* The feed responses: up to MaxFeedLen records, no network twice.
SeqsUpTo(S, n) == UNION { [1..k -> S] : k \in 0..n }

Feeds ==
    { f \in SeqsUpTo(FeedRecords, MaxFeedLen) :
        \A i, j \in 1..Len(f) : i # j => f[i].network # f[j].network }

\* What requests.get / raise_for_status / response.json() give: a JSON array, or
\* an exception (network error, non-2xx status, invalid JSON).
Responses == { [ok |-> TRUE, data |-> f] : f \in Feeds } \cup { [ok |-> FALSE, data |-> << >>] }

\* Faulty variant for the sensitivity of C12: a failed fetch hands on a
\* record instead of the empty list.
FetchFailureNotEmpty(resp) ==
    IF resp.ok THEN resp.data ELSE << Rec("cosmos", "v1", 100, T24) >>

fetch_upgrades(resp) == IF resp.ok THEN resp.data ELSE << >>

parse_upgrades(data) ==
    [i \in 1..Len(data) |->
        Rec(data[i].network, data[i].node_version, data[i].block,
            data[i].estimated_upgrade_time)]

InAllowList(u) == u.network \in SG1_RELEVANT_NETWORKS

filter_upgrades(upgrades) == SelectSeq(upgrades, InAllowList)

\* parse_iso_time: the datetime (a minute), None for a string fromisoformat
\* rejects (ValueError is caught), and an AttributeError for None, which has no
\* .replace and is not caught.
parse_iso_time(iso) ==
    IF iso.kind = "none" THEN [raised |-> TRUE, dt |-> NoneTime]
    ELSE IF iso.kind = "bad" THEN [raised |-> FALSE, dt |-> NoneTime]
    ELSE [raised |-> FALSE, dt |-> iso]

\* The value hours_until_upgrade returns for an invalid time: -1 (hours).
InvalidHours == 0 - MinutesPerHour

\* Faulty variant for the sensitivity of C7: an invalid time counts as "now" (0 hours left).
HoursInvalidAsNow(iso, clock) ==
    LET p == parse_iso_time(iso) IN
    IF p.raised THEN [raised |-> TRUE, h |-> 0]
    ELSE IF p.dt.kind # "time" THEN [raised |-> FALSE, h |-> 0]
    ELSE [raised |-> FALSE, h |-> p.dt.t - clock]

\* hours_until_upgrade, in minutes: [raised, h].
hours_until_upgrade(iso, clock) ==
    LET p == parse_iso_time(iso) IN
    IF p.raised THEN [raised |-> TRUE, h |-> 0]
    ELSE IF p.dt.kind # "time" THEN [raised |-> FALSE, h |-> InvalidHours]
    ELSE [raised |-> FALSE, h |-> p.dt.t - clock]

-----------------------------------------------------------------------------
(* Alert flags and thresholds (main.py, check_upgrades)                    *)

\* dict.get(key, False) on an alerts_sent dict.
GetFlag(flags, key) == IF key \in DOMAIN flags THEN flags[key] ELSE FALSE

\* flags[key] = True on an alerts_sent dict (the key is added when missing).
SetFlag(flags, key) ==
    [k \in (DOMAIN flags) \cup {key} |-> IF k = key THEN TRUE ELSE flags[k]]

\* The alerts_sent dict check_upgrades gives a network it has not cached.
PollFlags == [k \in {"24_hours", "2_hours", "upgrade_time"} |-> FALSE]

\* The alerts_sent dict check_for_new_or_changed_upgrades gives a new network.
TrackerFlags ==
    [k \in {"2_days_before", "1_day_before", "2_hours_before", "upgrade_time"} |-> FALSE]

AllFlagKeys == (DOMAIN PollFlags) \cup (DOMAIN TrackerFlags)

\* The three `if`s of check_upgrades, in source order: the flag key and the
\* closed window of h_left (minutes) in which the alert is sent.
Thresholds ==
    << [key |-> "24_hours", lo |-> 23 * MinutesPerHour, hi |-> 24 * MinutesPerHour],
       [key |-> "2_hours", lo |-> (19 * MinutesPerHour) \div 10,
                           hi |-> (21 * MinutesPerHour) \div 10],
       [key |-> "upgrade_time", lo |-> 0 - (MinutesPerHour \div 10),
                                hi |-> MinutesPerHour \div 10] >>

NumThresholds == Len(Thresholds)

\* Faulty variant for the sensitivity of C1: the window test without the `not alerts_sent.get(...)` guard.
DueIgnoringFlag(i, h, flags) ==
    Thresholds[i].lo <= h /\ h <= Thresholds[i].hi

\* The condition of the i-th `if`.
Due(i, h, flags) ==
    /\ Thresholds[i].lo <= h
    /\ h <= Thresholds[i].hi
    /\ ~GetFlag(flags, Thresholds[i].key)

\* A cache entry: the fields of the feed record that are read again
\* (estimated_upgrade_time is cached too, and only ever read from the feed
\* record of the current pass), and the flags.
Entry(upg, flags) ==
    [network |-> upg.network, node_version |-> upg.node_version, block |-> upg.block,
     alerts_sent |-> flags]

\* The cache entry check_upgrades creates for a network it has not seen:
\* upg.copy() plus fresh flags.
NewEntry(upg) == Entry(upg, PollFlags)

\* Faulty variant for the sensitivity of C10: the flag is set on a private copy of the dict, so the cache sees
\* it only at the write-back that ends the threshold block.
MarkSentOnCopy(cache, net, key) == cache

\* alerts_sent[key] = True.  alerts_sent is the dict object held by
\* last_upgrades[network] (dict.get returns it, not a copy), so the cache entry
\* changes in the same statement.
MarkSent(cache, net, key) ==
    [cache EXCEPT ![net].alerts_sent = SetFlag(@, key)]

\* last_upgrades[network]["alerts_sent"] = alerts_sent
StoreFlags(cache, net, flags) == [cache EXCEPT ![net].alerts_sent = flags]

-----------------------------------------------------------------------------
(* The subscription registry and its file (telegram_bot.py)                *)

\* chat_subscriptions is a dict chat_id -> set of names.  A dict iterates in
\* insertion order and no key is ever deleted, so it is the sequence of its
\* items [id, nets].
Chats == {1, 2, 3}
SubNets == {"cosmos", "osmosis"}

Ids(reg) == { reg[i].id : i \in 1..Len(reg) }

IndexOf(reg, c) == CHOOSE i \in 1..Len(reg) : reg[i].id = c

\* chat_subscriptions.get(chat_id, set())
SubsOf(reg, c) == IF c \in Ids(reg) THEN reg[IndexOf(reg, c)].nets ELSE {}

\* chat_subscriptions[chat_id] = nets
DictPut(reg, c, nets) ==
    IF c \in Ids(reg) THEN [reg EXCEPT ![IndexOf(reg, c)].nets = nets]
    ELSE Append(reg, [id |-> c, nets |-> nets])

\* The dict as a mapping, without the insertion order (dict equality).
AsMap(reg) == [c \in Ids(reg) |-> SubsOf(reg, c)]

\* str(k) of an integer: its decimal digits, "-" first when negative.
DigitChars == << "0", "1", "2", "3", "4", "5", "6", "7", "8", "9" >>

RECURSIVE NatStr(_)
NatStr(n) ==
    IF n < 10 THEN << DigitChars[n + 1] >>
    ELSE Append(NatStr(n \div 10), DigitChars[(n % 10) + 1])

StrOfInt(k) == IF k < 0 THEN << "-" >> \o NatStr(0 - k) ELSE NatStr(k)

\* int(s) of such a string.
DigitVal(ch) == (CHOOSE i \in 1..10 : DigitChars[i] = ch) - 1

RECURSIVE NatOfStr(_)
NatOfStr(s) ==
    IF s = << >> THEN 0
    ELSE 10 * NatOfStr(SubSeq(s, 1, Len(s) - 1)) + DigitVal(s[Len(s)])

IntOfStr(s) == IF Head(s) = "-" THEN 0 - NatOfStr(Tail(s)) ELSE NatOfStr(s)

\* list(v) of a set: its elements once each, in an order the set decides.
ListsOf(S) == { l \in [1..Cardinality(S) -> S] : { l[i] : i \in 1..Len(l) } = S }

\* set(v) of a list.
SetOf(l) == { l[i] : i \in 1..Len(l) }

\* Faulty variant for the sensitivity of C9: chats whose set is empty are left out of the file.
RECURSIVE SaveNonEmpty(_)
SaveNonEmpty(reg) ==
    IF reg = << >> THEN { << >> }
    ELSE IF Head(reg).nets = {} THEN SaveNonEmpty(Tail(reg))
    ELSE { << [key |-> StrOfInt(Head(reg).id), val |-> l] >> \o rest :
              l \in ListsOf(Head(reg).nets), rest \in SaveNonEmpty(Tail(reg)) }

\* The JSON objects save_subscriptions may write for a registry:
\* {str(k): list(v) for k, v in chat_subscriptions.items()}, one for every
\* order the lists can come out in.
RECURSIVE SaveData(_)
SaveData(reg) ==
    IF reg = << >> THEN { << >> }
    ELSE { << [key |-> StrOfInt(Head(reg).id), val |-> l] >> \o rest :
              l \in ListsOf(Head(reg).nets), rest \in SaveData(Tail(reg)) }

\* {int(k): set(v) for k, v in data.items()}
RECURSIVE LoadData(_)
LoadData(data) ==
    IF data = << >> THEN << >>
    ELSE LET n == Len(data) IN
         DictPut(LoadData(SubSeq(data, 1, n - 1)), IntOfStr(data[n].key), SetOf(data[n].val))

\* subscriptions.json: missing, or holding a JSON object.
NoFile == [exists |-> FALSE, data |-> << >>]
FileOf(data) == [exists |-> TRUE, data |-> data]

\* The file as a mapping id -> set of names.
FileAsMap(file) == AsMap(LoadData(file.data))

\* load_subscriptions: the registry afterwards.  With no file the global is left
\* as it is; with a file it is rebound to a new dict.
load_subscriptions(reg, file) == IF file.exists THEN LoadData(file.data) ELSE reg

\* save_subscriptions: the files it may leave.  When open() or the write raises
\* the error is logged and the old file stays.
save_subscriptions(reg, file, ok) ==
    IF ok THEN { FileOf(d) : d \in SaveData(reg) } ELSE { file }

-----------------------------------------------------------------------------
(* State of the poll pass and of a broadcast                               *)

NoBcast ==
    [status |-> "none", net |-> "", key |-> "", live |-> TRUE, dict |-> << >>,
     used |-> 0, pos |-> 0, cur |-> 0, attempted |-> {}, stable |-> {}, ever |-> {},
     ok |-> 0, failed |-> 0, twice |-> FALSE]
\* used, pos: the size the iterator remembers, the items it has yielded;
\* cur: the chat of the send in flight; attempted: the chats sent to so far;
\* stable, ever: the chats subscribed to net all through the broadcast so far,
\* and at some moment of it; ok, failed: 1 once a send has succeeded, has failed;
\* twice: some chat has been sent to a second time.

\* The chats whose set holds the network.
Subscribers(reg, net) == { c \in Ids(reg) : net \in SubsOf(reg, c) }

\* broadcast_message up to its loop: the items iterator is created on the dict
\* the global names at that moment and remembers the dict's size.
\* network.lower() leaves the name as it is: filter_upgrades passed it, so it
\* is one of the lowercase names of the allow-list.
StartBroadcast(reg, net, key) ==
    [status |-> "running", net |-> net, key |-> key, live |-> TRUE, dict |-> << >>,
     used |-> Len(reg), pos |-> 0, cur |-> 0, attempted |-> {},
     stable |-> Subscribers(reg, net), ever |-> Subscribers(reg, net),
     ok |-> 0, failed |-> 0, twice |-> FALSE]

\* The dict object the running broadcast iterates: the global's, unless
\* load_subscriptions has rebound the global since the loop began.
IterDict == IF bcast.live THEN chat_subscriptions ELSE bcast.dict

\* What a rebinding of the global does to a running broadcast: its iterator
\* keeps the old dict object.
Rebound(b, oldReg) ==
    IF b.status = "running" /\ b.live THEN [b EXCEPT !.live = FALSE, !.dict = oldReg]
    ELSE b

\* A running broadcast observed while a command changes the registry to reg.
Observed(b, reg) ==
    IF b.status = "running"
    THEN [b EXCEPT !.stable = @ \cap Subscribers(reg, b.net),
                   !.ever = @ \cup Subscribers(reg, b.net)]
    ELSE b

\* The networks of a candidate list that check_for_new_or_changed_upgrades
\* would classify as new or changed against a cache (spec 4.2), as a set.
ChangedNets(cands, cache) ==
    { cands[i].network : i \in { j \in 1..Len(cands) :
        \/ cands[j].network \notin DOMAIN cache
        \/ cache[cands[j].network].node_version # cands[j].node_version
        \/ cache[cands[j].network].block # cands[j].block } }

NoHist ==
    [ticks |-> 0,
     fired |-> [p \in SG1_RELEVANT_NETWORKS \X AllFlagKeys |-> 0],
     tickLog |-> << >>,
     timed |-> {},
     failed |-> {},
     raised |-> {},
     changes |-> {},
     h50prev |-> {}, h50cur |-> {},
     nets |-> {}, evald |-> {}, sendFailed |-> FALSE, excepted |-> FALSE,
     fetchFailed |-> FALSE, cache0 |-> << >>, untimed |-> {},
     overlapped |-> FALSE]
\* nets: the networks of the pass's relevant list; evald: the (network, `if`)
\* pairs whose condition the pass has evaluated; sendFailed: a send_message of
\* the pass has raised; excepted: a broadcast of the pass has raised;
\* fetchFailed: the fetch of the pass failed, and cache0: the cache as that
\* pass found it; untimed: the networks of the pass's relevant list whose
\* estimated time is missing or does not parse; overlapped: some pass has
\* started while another was in progress.

NoCall == [called |-> FALSE, cands |-> << >>, before |-> << >>, result |-> << >>]

NoTrip == [ops |-> << >>, reg |-> << >>, file |-> NoFile]

\* No list_upgrades call observed.
NoListing == [outcome |-> "none", chat |-> 0, subs |-> {}, feed |-> << >>, items |-> << >>]

\* TELEGRAM_BOT_TOKEN: not set (os.environ.get gives None), set to the empty
\* string, or set to a token.
NoToken == [set |-> FALSE, value |-> ""]
EmptyToken == [set |-> TRUE, value |-> ""]
BotToken == [set |-> TRUE, value |-> "token"]

NoReplies == [listed |-> NoListing, acked |-> {}, unacked |-> {}]
\* listed: the last list_upgrades call and what it replied; acked, unacked:
\* the (chat, network) pairs whose latest acknowledged change is a
\* subscription ("Successfully subscribed to"), an unsubscription.

FiftyHours == 50 * MinutesPerHour
MinusThreeHours == 0 - 3 * MinutesPerHour

Cap2(n) == IF n >= 2 THEN 2 ELSE n

-----------------------------------------------------------------------------
(* Initial state: main() has run build_application, which loads the file.   *)

InitRegistries ==
    { << >>,
      << [id |-> 1, nets |-> {"cosmos"}], [id |-> 2, nets |-> {"cosmos", "osmosis"}] >> }

InitFiles == {NoFile} \cup { FileOf(d) : d \in UNION { SaveData(r) : r \in InitRegistries } }

PassIdle ==
    /\ pc = "idle"
    /\ relevant = << >>
    /\ h_left = 0
    /\ alerts_sent = PollFlags
    /\ stage = 1
    /\ bcast = NoBcast

Init ==
    /\ now = 0
    /\ last_upgrades = << >>
    /\ subsFile \in InitFiles
    /\ chat_subscriptions = load_subscriptions(<< >>, subsFile)
    /\ PassIdle
    /\ cmds = 0
    /\ hist = NoHist
    /\ trk = NoCall
    /\ rt = NoTrip
    /\ replies = NoReplies
    /\ token = BotToken

-----------------------------------------------------------------------------
(* The poll pass: check_upgrades (main.py)                                 *)
(* (~trk.called: a synchronous call of the tracker function, where there   *)
(* is one, returns before anything else runs)                              *)

\* What is observed of one pass is dropped when the pass is over.
EndOfPass(h) ==
    [h EXCEPT !.tickLog = << >>, !.changes = {}, !.h50prev = {},
              !.nets = {}, !.evald = {}, !.sendFailed = FALSE, !.excepted = FALSE,
              !.fetchFailed = FALSE, !.cache0 = << >>, !.untimed = {}]

\* Faulty variant for the sensitivity of C16: a tick starts a pass whenever
\* the event loop is free, also while a pass waits in an await.
PassMayStartAtAnyYield(p) == p \in {"idle", "sending", "errsleep"}

\* job_queue.run_repeating: the job queue runs one instance of a job at a
\* time, so a tick that comes due while check_upgrades is still running (in a
\* send, or in the sleep of its error handler) starts no pass.
PassMayStart(p) == p = "idle"

\* job_queue.run_repeating starts a pass every POLL_INTERVAL_SECONDS; the pass
\* fetches, parses and filters the feed (all synchronous).
Tick(resp) ==
    /\ ~trk.called
    /\ PassMayStart(pc)
    /\ now' = now + PollMinutes
    /\ relevant' = filter_upgrades(parse_upgrades(fetch_upgrades(resp)))
    /\ pc' = "loop"
    /\ hist' = [hist EXCEPT !.ticks = @ + 1,
                            !.changes = ChangedNets(relevant', last_upgrades),
                            !.h50prev = hist.h50cur,
                            !.h50cur = {},
                            !.nets = { relevant'[i].network : i \in 1..Len(relevant') },
                            !.overlapped = @ \/ pc # "idle",
                            !.fetchFailed = ~resp.ok,
                            !.cache0 = IF resp.ok THEN << >> ELSE last_upgrades,
                            !.untimed =
                                { relevant'[i].network : i \in
                                    { j \in 1..Len(relevant') :
                                        relevant'[j].estimated_upgrade_time.kind # "time" } }]
    /\ UNCHANGED << last_upgrades, chat_subscriptions, subsFile, h_left, alerts_sent,
                    stage, bcast, cmds, trk, rt, replies, token >>

\* A poll tick of Spec: any response of the feed.
TickStart(resp) ==
    /\ hist.ticks < MaxTicks
    /\ Tick(resp)

\* `for upg in relevant:` with no upgrade left: the pass returns.
PassEnd ==
    /\ ~trk.called
    /\ pc = "loop"
    /\ relevant = << >>
    /\ pc' = "idle"
    /\ h_left' = 0
    /\ alerts_sent' = PollFlags
    /\ stage' = 1
    /\ hist' = EndOfPass(hist)
    /\ UNCHANGED << now, last_upgrades, chat_subscriptions, subsFile, relevant, bcast,
                    cmds, trk, rt, replies, token >>

\* The head of the loop body: the cache entry is created if missing, alerts_sent
\* and h_left are read.  hours_until_upgrade raising (est_time None) is outside
\* the inner try: the outer handler ends the pass and sleeps.
LoopHead ==
    /\ ~trk.called
    /\ pc = "loop"
    /\ relevant # << >>
    /\ LET upg == Head(relevant)
           net == upg.network
           cache == IF net \in DOMAIN last_upgrades THEN last_upgrades
                    ELSE last_upgrades @@ (net :> NewEntry(upg))
           hu == hours_until_upgrade(upg.estimated_upgrade_time, now)
       IN  /\ last_upgrades' = cache
           /\ alerts_sent' = cache[net].alerts_sent
           /\ IF hu.raised
              THEN /\ pc' = "errsleep"
                   /\ relevant' = << >>
                   /\ h_left' = 0
                   /\ hist' = hist
              ELSE /\ pc' = "check"
                   /\ relevant' = relevant
                   /\ h_left' = hu.h
                   /\ hist' = [hist EXCEPT
                         !.timed = IF upg.estimated_upgrade_time.kind = "time"
                                   THEN @ \cup {net} ELSE @,
                         !.h50cur = IF hu.h = FiftyHours THEN @ \cup {net} ELSE @]
    /\ stage' = 1
    /\ UNCHANGED << now, chat_subscriptions, subsFile, bcast, cmds, trk, rt, replies, token >>

\* After the stage-th `if`: the next `if`, or the write-back of line 187.
NextStage == IF stage < NumThresholds THEN "check" ELSE "store"

\* The stage-th threshold `if` when its condition holds: the flag is set and
\* broadcast_message is called.
FireThreshold ==
    /\ ~trk.called
    /\ pc = "check"
    /\ Due(stage, h_left, alerts_sent)
    /\ LET net == Head(relevant).network
           key == Thresholds[stage].key
       IN  /\ alerts_sent' = SetFlag(alerts_sent, key)
           /\ last_upgrades' = MarkSent(last_upgrades, net, key)
           /\ bcast' = StartBroadcast(chat_subscriptions, net, key)
           /\ hist' = [hist EXCEPT !.fired[<< net, key >>] = Cap2(@ + 1),
                                   !.tickLog = Append(@, [net |-> net, kind |-> key]),
                                   !.evald = @ \cup {<< net, stage >>}]
    /\ pc' = "bcast"
    /\ UNCHANGED << now, chat_subscriptions, subsFile, relevant, h_left, stage, cmds,
                    trk, rt, replies, token >>

\* The stage-th threshold `if` when its condition does not hold.
SkipThreshold ==
    /\ ~trk.called
    /\ pc = "check"
    /\ ~Due(stage, h_left, alerts_sent)
    /\ pc' = NextStage
    /\ stage' = IF stage < NumThresholds THEN stage + 1 ELSE stage
    /\ hist' = [hist EXCEPT !.evald = @ \cup {<< Head(relevant).network, stage >>}]
    /\ UNCHANGED << now, last_upgrades, chat_subscriptions, subsFile, relevant, h_left,
                    alerts_sent, bcast, cmds, trk, rt, replies, token >>

\* One step of `for chat_id, networks in chat_subscriptions.items()`: the
\* iterator raises RuntimeError when the dict has changed size, stops at the
\* end, and otherwise yields the next item; a subscribed chat gets
\* `await bot.send_message`.
BroadcastNext ==
    /\ ~trk.called
    /\ pc = "bcast"
    /\ LET d == IterDict IN
       IF Len(d) # bcast.used
       THEN /\ bcast' = [bcast EXCEPT !.status = "raised"]
            /\ pc' = "except"
       ELSE IF bcast.pos >= Len(d)
       THEN /\ bcast' = [bcast EXCEPT !.status = "done"]
            /\ pc' = "after"
       ELSE LET item == d[bcast.pos + 1] IN
            IF bcast.net \in item.nets
            THEN /\ bcast' = [bcast EXCEPT !.pos = @ + 1, !.cur = item.id,
                                           !.attempted = @ \cup {item.id},
                                           !.twice = @ \/ item.id \in bcast.attempted]
                 /\ pc' = "sending"
            ELSE /\ bcast' = [bcast EXCEPT !.pos = @ + 1]
                 /\ pc' = "bcast"
    /\ UNCHANGED << now, last_upgrades, chat_subscriptions, subsFile, relevant, h_left,
                    alerts_sent, stage, cmds, hist, trk, rt, replies, token >>

\* Faulty variant for the sensitivity of C11: a send_message that raises
\* leaves broadcast_message, as if the per-chat try were not there.
AfterSendUncaught(ok) == IF ok THEN "bcast" ELSE "except"

\* Where broadcast_message goes on after send_message: the per-chat `except
\* Exception` catches a raise, so in both cases the loop takes its next item.
AfterSend(ok) == "bcast"

\* send_message returns or raises; a raise is caught and logged per chat.
SendDone(ok) ==
    /\ ~trk.called
    /\ pc = "sending"
    /\ bcast' = [bcast EXCEPT !.cur = 0,
                              !.ok = IF ok THEN 1 ELSE @,
                              !.failed = IF ok THEN @ ELSE 1]
    /\ pc' = AfterSend(ok)
    /\ hist' = [hist EXCEPT !.sendFailed = @ \/ ~ok]
    /\ UNCHANGED << now, last_upgrades, chat_subscriptions, subsFile, relevant, h_left,
                    alerts_sent, stage, cmds, trk, rt, replies, token >>

\* broadcast_message has returned: on to the next `if`.
AfterBroadcast ==
    /\ ~trk.called
    /\ pc = "after"
    /\ pc' = NextStage
    /\ stage' = IF stage < NumThresholds THEN stage + 1 ELSE stage
    /\ hist' = [hist EXCEPT !.failed = IF bcast.ok = 0 /\ bcast.failed > 0
                                       THEN @ \cup {<< bcast.net, bcast.key >>} ELSE @]
    /\ bcast' = NoBcast
    /\ UNCHANGED << now, last_upgrades, chat_subscriptions, subsFile, relevant, h_left,
                    alerts_sent, cmds, trk, rt, replies, token >>

\* broadcast_message has raised: the inner handler logs, the rest of the
\* threshold block (the write-back included) is skipped, the loop goes on.
ExceptHandler ==
    /\ ~trk.called
    /\ pc = "except"
    /\ pc' = "loop"
    /\ relevant' = Tail(relevant)
    /\ hist' = [hist EXCEPT !.raised = @ \cup {<< bcast.net, bcast.key >>},
                            !.excepted = TRUE]
    /\ bcast' = NoBcast
    /\ UNCHANGED << now, last_upgrades, chat_subscriptions, subsFile, h_left,
                    alerts_sent, stage, cmds, trk, rt, replies, token >>

\* last_upgrades[network]["alerts_sent"] = alerts_sent, then the next upgrade.
StoreAlerts ==
    /\ ~trk.called
    /\ pc = "store"
    /\ last_upgrades' = StoreFlags(last_upgrades, Head(relevant).network, alerts_sent)
    /\ relevant' = Tail(relevant)
    /\ pc' = "loop"
    /\ UNCHANGED << now, chat_subscriptions, subsFile, h_left, alerts_sent, stage,
                    bcast, cmds, hist, trk, rt, replies, token >>

\* The outer handler's asyncio.sleep(POLL_INTERVAL_SECONDS) is over.
ErrorSleepDone ==
    /\ ~trk.called
    /\ pc = "errsleep"
    /\ now' = now + PollMinutes
    /\ pc' = "idle"
    /\ alerts_sent' = PollFlags
    /\ hist' = EndOfPass(hist)
    /\ UNCHANGED << last_upgrades, chat_subscriptions, subsFile, relevant, h_left,
                    stage, bcast, cmds, trk, rt, replies, token >>

-----------------------------------------------------------------------------
(* Commands (telegram_bot.py, main.py).  A handler runs without a yield up  *)
(* to its final reply_text, so it is one step; it can run whenever the poll *)
(* pass is not running or is waiting in an await.                           *)

PollYields == pc \in {"idle", "sending", "errsleep"}

\* The words of a command after splitting at blanks and commas: none or one.
ArgTokens == {"cosmos", "Osmosis"}
ArgLists == { {} } \cup { {t} : t \in ArgTokens }

\* Whether the write of subscriptions.json succeeds.
SaveOutcomes == {TRUE}

\* net.strip().lower()
Lower(tok) == IF tok = "Osmosis" THEN "osmosis" ELSE tok

LowerAll(args) == { Lower(t) : t \in args }

\* The replies after chat c has been told "Successfully subscribed to" for
\* the networks nets.
AckSubscribed(r, c, nets) ==
    [r EXCEPT !.acked = @ \cup ({c} \X nets), !.unacked = @ \ ({c} \X nets)]

\* The replies after chat c has been told "Successfully unsubscribed from" for
\* the networks nets.
AckUnsubscribed(r, c, nets) ==
    [r EXCEPT !.unacked = @ \cup ({c} \X nets), !.acked = @ \ ({c} \X nets)]

\* subscribe_command: the reply acknowledges the networks added, whether or
\* not save_subscriptions could write the file.
SubscribeCommand(c, args, saveOk) ==
    /\ PollYields
    /\ cmds' = cmds + 1
    /\ IF args = {}
       THEN /\ chat_subscriptions' = chat_subscriptions
            /\ subsFile' = subsFile
            /\ replies' = replies
       ELSE LET reg1 == IF c \in Ids(chat_subscriptions) THEN chat_subscriptions
                        ELSE DictPut(chat_subscriptions, c, {})
                added == LowerAll(args) \ SubsOf(reg1, c)
                reg2 == DictPut(reg1, c, SubsOf(reg1, c) \cup added)
            IN  /\ chat_subscriptions' = reg2
                /\ IF added # {}
                   THEN subsFile' \in save_subscriptions(reg2, subsFile, saveOk)
                   ELSE subsFile' = subsFile
                /\ replies' = AckSubscribed(replies, c, added)
    /\ bcast' = Observed(bcast, chat_subscriptions')
    /\ UNCHANGED << now, last_upgrades, pc, relevant, h_left, alerts_sent, stage,
                    hist, trk, rt, token >>

Subscribe(c, args, saveOk) ==
    /\ cmds < MaxCmds
    /\ SubscribeCommand(c, args, saveOk)

\* unsubscribe_command: the chat's key is created before the arguments are
\* looked at.
UnsubscribeCommand(c, args, saveOk) ==
    /\ PollYields
    /\ cmds' = cmds + 1
    /\ LET reg1 == IF c \in Ids(chat_subscriptions) THEN chat_subscriptions
                   ELSE DictPut(chat_subscriptions, c, {})
           removed == LowerAll(args) \cap SubsOf(reg1, c)
           reg2 == DictPut(reg1, c, SubsOf(reg1, c) \ removed)
       IN  /\ chat_subscriptions' = reg2
           /\ IF removed # {}
              THEN subsFile' \in save_subscriptions(reg2, subsFile, saveOk)
              ELSE subsFile' = subsFile
           /\ replies' = AckUnsubscribed(replies, c, removed)
    /\ bcast' = Observed(bcast, chat_subscriptions')
    /\ UNCHANGED << now, last_upgrades, pc, relevant, h_left, alerts_sent, stage,
                    hist, trk, rt, token >>

Unsubscribe(c, args, saveOk) ==
    /\ cmds < MaxCmds
    /\ UnsubscribeCommand(c, args, saveOk)

\* The status list_upgrades gives an upgrade with h_left = h, "skip" for the
\* `continue` of an old upgrade.
ListStatus(h) ==
    IF h > 24 * MinutesPerHour THEN "days"
    ELSE IF h > 0 THEN "hours"
    ELSE IF h > 0 - 24 * MinutesPerHour THEN "started"
    ELSE "skip"

\* One block of the message: network, version, time and status of an upgrade.
ListItem(upg, clock) ==
    [network |-> upg.network, node_version |-> upg.node_version,
     estimated_upgrade_time |-> upg.estimated_upgrade_time,
     status |-> ListStatus(hours_until_upgrade(upg.estimated_upgrade_time, clock).h)]

\* list_upgrades after get_chat_subscriptions, for the subscriptions subs of
\* the chat: which reply it sends, or that it raises before any reply
\* (None.lower() in the list comprehension, hours_until_upgrade of None in the
\* loop), and the blocks of the message in order.
list_upgrades(subs, resp, clock) ==
    LET parsed == parse_upgrades(fetch_upgrades(resp))
        IsSubscribed(u) == Lower(u.network) \in subs
        subscribed_upgrades == SelectSeq(parsed, IsSubscribed)
        Raises(u) == hours_until_upgrade(u.estimated_upgrade_time, clock).raised
        Kept(u) == ListStatus(hours_until_upgrade(u.estimated_upgrade_time, clock).h) # "skip"
        kept == SelectSeq(subscribed_upgrades, Kept)
        Reply(o, items) ==
            [outcome |-> o, chat |-> 0, subs |-> subs, feed |-> parsed, items |-> items]
    IN  IF subs = {} THEN Reply("no_subscriptions", << >>)
        ELSE IF \E i \in 1..Len(parsed) : parsed[i].network = NoneNet
        THEN Reply("raised", << >>)
        ELSE IF subscribed_upgrades = << >> THEN Reply("none_found", << >>)
        ELSE IF \E i \in 1..Len(subscribed_upgrades) : Raises(subscribed_upgrades[i])
        THEN Reply("raised", << >>)
        ELSE Reply("report", [i \in 1..Len(kept) |-> ListItem(kept[i], clock)])

\* list_upgrades, its effect on the registry: get_chat_subscriptions reloads
\* it from the file, which rebinds the global when the file exists.
ListUpgradesRegistry(c) ==
    /\ PollYields
    /\ cmds' = cmds + 1
    /\ chat_subscriptions' = load_subscriptions(chat_subscriptions, subsFile)
    /\ bcast' = Observed(IF subsFile.exists THEN Rebound(bcast, chat_subscriptions)
                          ELSE bcast,
                          chat_subscriptions')
    /\ UNCHANGED << now, last_upgrades, subsFile, pc, relevant, h_left, alerts_sent,
                    stage, hist, trk, rt, token >>

\* list_upgrades with its reply observed, for the feed response resp.
ListUpgradesReply(c, resp) ==
    /\ ListUpgradesRegistry(c)
    /\ replies' = [replies EXCEPT !.listed =
           [list_upgrades(SubsOf(chat_subscriptions', c), resp, now) EXCEPT !.chat = c]]

\* list_upgrades in Spec, where its reply is not observed.
ListUpgrades(c) ==
    /\ cmds < MaxCmds
    /\ ListUpgradesRegistry(c)
    /\ UNCHANGED replies

-----------------------------------------------------------------------------
(* The program                                                             *)

PollStep ==
    \/ \E resp \in Responses : TickStart(resp)
    \/ PassEnd
    \/ LoopHead
    \/ FireThreshold
    \/ SkipThreshold
    \/ BroadcastNext
    \/ \E ok \in BOOLEAN : SendDone(ok)
    \/ AfterBroadcast
    \/ ExceptHandler
    \/ StoreAlerts
    \/ ErrorSleepDone

Command ==
    \/ \E c \in Chats, args \in ArgLists, ok \in SaveOutcomes : Subscribe(c, args, ok)
    \/ \E c \in Chats, args \in ArgLists, ok \in SaveOutcomes : Unsubscribe(c, args, ok)
    \/ \E c \in Chats : ListUpgrades(c)

Next == PollStep \/ Command

Spec == Init /\ [][Next]_vars

-----------------------------------------------------------------------------
(* check_for_new_or_changed_upgrades (polkachu_upgrades.py).  main.py       *)
(* imports it and never calls it; SpecTracker adds a caller, so that the    *)
(* function runs on the caches the poll pass builds.                        *)

\* Faulty variant for the sensitivity of C6: a changed upgrade starts again with fresh flags.
TrackChangedReset(upg, old) == Entry(upg, TrackerFlags)

\* The entry a changed upgrade leaves in the cache: the candidate, with the old
\* entry's alerts_sent (every cache entry has one, so the default of
\* old_upg.get is never used).
TrackChanged(upg, old) == Entry(upg, old.alerts_sent)

\* The entry a new upgrade leaves in the cache.
TrackNew(upg) == Entry(upg, TrackerFlags)

\* Faulty variant for the sensitivity of C18: only a new version counts as a
\* change, a new block does not.
TrackOneVersionOnly(st, upg) ==
    LET net == upg.network IN
    IF net \notin DOMAIN st.cache
    THEN [cache |-> st.cache @@ (net :> TrackNew(upg)),
          out |-> Append(st.out, TrackNew(upg))]
    ELSE LET old == st.cache[net] IN
         IF old.node_version # upg.node_version
         THEN [cache |-> [st.cache EXCEPT ![net] = TrackChanged(upg, old)],
               out |-> Append(st.out, TrackChanged(upg, old))]
         ELSE st

\* One iteration of the loop: [cache, out] after the candidate upg.
TrackOne(st, upg) ==
    LET net == upg.network IN
    IF net \notin DOMAIN st.cache
    THEN [cache |-> st.cache @@ (net :> TrackNew(upg)),
          out |-> Append(st.out, TrackNew(upg))]
    ELSE LET old == st.cache[net] IN
         IF old.node_version # upg.node_version \/ old.block # upg.block
         THEN [cache |-> [st.cache EXCEPT ![net] = TrackChanged(upg, old)],
               out |-> Append(st.out, TrackChanged(upg, old))]
         ELSE st

\* The whole call: the cache afterwards and the list returned.
RECURSIVE check_for_new_or_changed_upgrades(_, _)
check_for_new_or_changed_upgrades(relevant_upgrades, cache) ==
    IF relevant_upgrades = << >> THEN [cache |-> cache, out |-> << >>]
    ELSE LET n == Len(relevant_upgrades) IN
         TrackOne(check_for_new_or_changed_upgrades(SubSeq(relevant_upgrades, 1, n - 1), cache),
                  relevant_upgrades[n])

\* Candidate lists handed to the function: allow-listed records, a network
\* possibly twice.
TrackerRecords ==
    { Rec("cosmos", "v1", 100, T24), Rec("cosmos", "v2", 100, T24),
      Rec("cosmos", "v1", 200, T24), Rec("osmosis", "v1", 100, T24) }

TrackerCands == SeqsUpTo(TrackerRecords, MaxFeedLen)

\* A call of the function (it is synchronous: one step).
TrackerCall(cands) ==
    /\ ~trk.called
    /\ PollYields
    /\ LET r == check_for_new_or_changed_upgrades(cands, last_upgrades) IN
       /\ last_upgrades' = r.cache
       /\ trk' = [called |-> TRUE, cands |-> cands, before |-> last_upgrades,
                  result |-> r.out]
    /\ UNCHANGED << now, chat_subscriptions, subsFile, pc, relevant, h_left, alerts_sent,
                    stage, bcast, cmds, hist, rt, replies, token >>

\* The caller has the result.
TrackerReturn ==
    /\ trk.called
    /\ trk' = NoCall
    /\ UNCHANGED << now, last_upgrades, chat_subscriptions, subsFile, pc, relevant,
                    h_left, alerts_sent, stage, bcast, cmds, hist, rt, replies, token >>

\* No command runs in SpecTracker, so the dict of a broadcast never changes
\* size and broadcast_message never raises: ExceptHandler is left out.
NextTracker ==
    \/ \E resp \in Responses : TickStart(resp)
    \/ PassEnd
    \/ LoopHead
    \/ FireThreshold
    \/ SkipThreshold
    \/ BroadcastNext
    \/ \E ok \in BOOLEAN : SendDone(ok)
    \/ AfterBroadcast
    \/ StoreAlerts
    \/ ErrorSleepDone
    \/ \E cands \in TrackerCands : TrackerCall(cands)
    \/ TrackerReturn

\* The registry does not change in SpecTracker: one file is enough.
InitTracker ==
    /\ Init
    /\ subsFile = FileOf(<< [key |-> << "1" >>, val |-> << "cosmos" >>],
                            [key |-> << "2" >>, val |-> << "cosmos", "osmosis" >>] >>)

SpecTracker == InitTracker /\ [][NextTracker]_vars

-----------------------------------------------------------------------------
(* Claims about check_for_new_or_changed_upgrades (SpecTracker)             *)

\* The places of network n in a candidate list.
PlacesOf(cands, n) == { i \in 1..Len(cands) : cands[i].network = n }

\* Candidate c differs from cache entry e in version or block.
Differs(c, e) == c.node_version # e.node_version \/ c.block # e.block

\* C6: when a tracked network comes back with a different block or version,
\* the call returns it in the change-set, the cached record takes the new
\* version and block, and every alert flag of the network is as before the
\* call; no call changes a flag of a network that was tracked before it.
C6_ChangedKeepsFlags ==
    trk.called =>
        \A n \in DOMAIN trk.before :
            /\ last_upgrades[n].alerts_sent = trk.before[n].alerts_sent
            /\ \A i \in PlacesOf(trk.cands, n) :
                  (PlacesOf(trk.cands, n) = {i} /\ Differs(trk.cands[i], trk.before[n])) =>
                      /\ \E j \in 1..Len(trk.result) :
                            /\ trk.result[j].network = n
                            /\ trk.result[j].node_version = trk.cands[i].node_version
                            /\ trk.result[j].block = trk.cands[i].block
                      /\ last_upgrades[n].node_version = trk.cands[i].node_version
                      /\ last_upgrades[n].block = trk.cands[i].block

\* C6 witness: a call has just classified a network as changed by its block
\* alone while one of its flags was already true and another still false.
C6_Witness ==
    /\ trk.called
    /\ \E n \in DOMAIN trk.before : \E i \in PlacesOf(trk.cands, n) :
          /\ PlacesOf(trk.cands, n) = {i}
          /\ trk.cands[i].block # trk.before[n].block
          /\ trk.cands[i].node_version = trk.before[n].node_version
          /\ \E k \in DOMAIN trk.before[n].alerts_sent : trk.before[n].alerts_sent[k]
          /\ \E k \in DOMAIN trk.before[n].alerts_sent : ~trk.before[n].alerts_sent[k]
          /\ last_upgrades[n].block = trk.cands[i].block

\* The earlier places of the network of the i-th candidate.
EarlierPlaces(i) == { j \in 1..(i - 1) : trk.cands[j].network = trk.cands[i].network }

\* The i-th candidate is new: nothing cached for its network before the call
\* and no earlier candidate of that network.
IsNew(i) == EarlierPlaces(i) = {} /\ trk.cands[i].network \notin DOMAIN trk.before

\* The i-th candidate is changed: its version or block differs from the record
\* its network had when its turn came (the latest earlier candidate of the
\* network, or else the record cached before the call).
IsChanged(i) ==
    /\ ~IsNew(i)
    /\ LET e == EarlierPlaces(i)
           last == CHOOSE j \in e : \A k \in e : k <= j
       IN  Differs(trk.cands[i],
                   IF e # {} THEN trk.cands[last] ELSE trk.before[trk.cands[i].network])

\* The places of the candidates that are new or changed, in order.
ChangeSetPlaces ==
    LET NewOrChanged(i) == IsNew(i) \/ IsChanged(i)
    IN  SelectSeq([i \in 1..Len(trk.cands) |-> i], NewOrChanged)

\* Network, version and block of a record.
Identity(r) == << r.network, r.node_version, r.block >>

\* C18: the list a call returns is, in candidate order, exactly the new and
\* the changed candidates; a new one is cached and returned with all four
\* flags false; a network whose candidates are all unchanged keeps its cached
\* record and flags as they were.
C18_ChangeSetExact ==
    trk.called =>
        /\ Len(trk.result) = Len(ChangeSetPlaces)
        /\ \A j \in 1..Len(ChangeSetPlaces) :
              /\ j <= Len(trk.result)
              /\ Identity(trk.result[j]) = Identity(trk.cands[ChangeSetPlaces[j]])
              /\ IsNew(ChangeSetPlaces[j]) => trk.result[j].alerts_sent = TrackerFlags
        /\ \A n \in DOMAIN last_upgrades \ DOMAIN trk.before :
              last_upgrades[n].alerts_sent = TrackerFlags
        /\ \A n \in DOMAIN trk.before :
              (\A i \in PlacesOf(trk.cands, n) : ~IsChanged(i)) =>
                  last_upgrades[n] = trk.before[n]

\* C18 witness: of two candidates the call has returned the second only, a new
\* network, the first being a tracked network with the cached version and
\* block and a flag already true.
C18_Witness ==
    /\ trk.called
    /\ Len(trk.cands) = 2
    /\ Len(trk.result) = 1
    /\ IsNew(2)
    /\ trk.cands[1].network \in DOMAIN trk.before
    /\ ~IsChanged(1)
    /\ \E k \in DOMAIN trk.before[trk.cands[1].network].alerts_sent :
          trk.before[trk.cands[1].network].alerts_sent[k]

-----------------------------------------------------------------------------
(* Claims about the poll pass                                              *)

\* The flag of (network, key) as the cache has it.
CacheFlag(n, k) ==
    n \in DOMAIN last_upgrades /\ GetFlag(last_upgrades[n].alerts_sent, k)

\* The loop of the pass has run out: the pass is about to return.
PassOver == pc = "loop" /\ relevant = << >>

\* h lies in the window of the i-th threshold.
InWindow(i, h) == Thresholds[i].lo <= h /\ h <= Thresholds[i].hi

\* The kinds of the broadcasts of this pass for network n, in order.
LogOf(n) ==
    LET ForNet(e) == e.net = n
        l == SelectSeq(hist.tickLog, ForNet)
    IN  [i \in 1..Len(l) |-> l[i].kind]

\* The threshold table of the specification, in order.
SpecTable == << "2_days_before", "1_day_before", "2_hours_before", "upgrade_time" >>

\* C1: over any sequence of poll ticks, and whatever the feed reports and the
\* tracker function replaces in the cache, the alert of a (network, threshold)
\* pair is broadcast at most once, and once it has been broadcast its flag is
\* true in the cache from then on.
C1_AtMostOnce ==
    \A p \in DOMAIN hist.fired :
        /\ hist.fired[p] <= 1
        /\ hist.fired[p] = 1 => CacheFlag(p[1], p[2])

\* C1 witness: in a later tick the pass evaluates a threshold whose alert has
\* been broadcast, with h_left inside the window again, for a feed record whose
\* version is not the cached one.
C1_Witness ==
    /\ pc = "check"
    /\ hist.ticks >= 2
    /\ InWindow(stage, h_left)
    /\ hist.fired[<< Head(relevant).network, Thresholds[stage].key >>] = 1
    /\ hist.tickLog = << >>
    /\ Head(relevant).node_version # last_upgrades[Head(relevant).network].node_version

\* C2: when h_left of a tracked network is 50 h at one tick and -3 h at the
\* next, the pass of the second tick broadcasts, in table order, the alert of
\* every threshold that had not been broadcast before: all four of them when
\* none had.
C2_JumpFiresAll ==
    (pc = "store" /\ h_left = MinusThreeHours
        /\ Head(relevant).network \in hist.h50prev) =>
        LET n == Head(relevant).network
            log == LogOf(n)
            NotBefore(k) ==
                hist.fired[<< n, k >>] = 0 \/ k \in { log[i] : i \in 1..Len(log) }
        IN  log = SelectSeq(SpecTable, NotBefore)

\* C4: a network whose upgrade was 50 h away at the previous tick (no alert
\* then) and is at most 48 h away and not yet due at this tick has had its
\* 2_days_before alert broadcast exactly once when the pass has evaluated it.
C4_TwoDaysBeforeFires ==
    (pc = "store" /\ Head(relevant).network \in hist.h50prev
        /\ Head(relevant).estimated_upgrade_time.kind = "time"
        /\ 0 < h_left /\ h_left <= 48 * MinutesPerHour) =>
        hist.fired[<< Head(relevant).network, "2_days_before" >>] = 1

\* C5: when a pass is over, every network of its feed that was new or changed
\* (version or block) at the start of the tick has had a broadcast in this pass.
C5_ChangeNotified ==
    PassOver =>
        \A n \in hist.changes : \E i \in 1..Len(hist.tickLog) : hist.tickLog[i].net = n

\* C7: a network the feed has never given a parsable upgrade time has no alert
\* broadcast and no flag true.
C7_UnparsableNeverAlerts ==
    \A n \in SG1_RELEVANT_NETWORKS \ hist.timed :
        /\ \A k \in AllFlagKeys : hist.fired[<< n, k >>] = 0 /\ ~CacheFlag(n, k)
        /\ bcast.net # n

\* C7 witness: a network that was cached before this tick and has only ever
\* had an unparsable time has gone through all three threshold tests again.
C7_Witness ==
    /\ pc = "store"
    /\ hist.ticks >= 2
    /\ Head(relevant).estimated_upgrade_time = BadTime
    /\ Head(relevant).network \notin hist.timed
    /\ h_left = InvalidHours
    /\ Head(relevant).network \notin hist.changes

\* C8: when a broadcast for network n ends, a send has been attempted to every
\* chat subscribed to n all through the broadcast, and to no chat that was not
\* subscribed to n at some moment of it.
C8_SendIffSubscribed ==
    bcast.status \in {"done", "raised"} =>
        /\ bcast.stable \subseteq bcast.attempted
        /\ bcast.attempted \subseteq bcast.ever

\* C10: the flag is true in the cache from the step that starts the broadcast,
\* and an alert whose sends all failed, or whose broadcast raised, keeps its
\* flag and is broadcast no second time.
C10_FailedStaysSent ==
    /\ bcast.status # "none" => CacheFlag(bcast.net, bcast.key)
    /\ \A p \in hist.failed \cup hist.raised : CacheFlag(p[1], p[2]) /\ hist.fired[p] = 1

\* C10 witness: one alert has had all its sends fail, another has had its
\* broadcast raise, and a later tick evaluates one of them inside its window.
C10_Witness ==
    /\ pc = "check"
    /\ hist.ticks >= 2
    /\ hist.failed # {}
    /\ hist.raised # {}
    /\ InWindow(stage, h_left)
    /\ << Head(relevant).network, Thresholds[stage].key >> \in hist.failed \cup hist.raised

\* Every `if` of every network of the pass's relevant list.
AllEvaluations == hist.nets \X (1..NumThresholds)

\* C11: a send_message that raises does not abort the batch.  A broadcast
\* leaves its loop by an exception only when the dict it iterates has changed
\* size, never because a send failed; a broadcast with a failed send that runs
\* to its end has attempted a send to every chat subscribed to the network all
\* through it; and a pass with a failed send, in which no broadcast raised,
\* has evaluated every threshold of every network of its feed when it returns.
C11_FailureDoesNotAbort ==
    /\ pc = "except" => Len(IterDict) # bcast.used
    /\ (pc = "after" /\ bcast.failed = 1) => bcast.stable \subseteq bcast.attempted
    /\ (PassOver /\ hist.sendFailed /\ ~hist.excepted) => hist.evald = AllEvaluations

\* C11 witness: a pass over two networks returns after the sends of the first
\* alert of its first network all failed.
C11_Witness ==
    /\ PassOver
    /\ hist.sendFailed
    /\ ~hist.excepted
    /\ Cardinality(hist.nets) = 2
    /\ hist.tickLog # << >>
    /\ << hist.tickLog[1].net, hist.tickLog[1].kind >> \in hist.failed
    /\ hist.tickLog[1].kind = Thresholds[1].key
    /\ hist.evald = AllEvaluations

\* C12: a pass whose fetch failed is the pass of an empty feed: its list of
\* upgrades is empty, it runs straight to its return without an exception,
\* broadcasts nothing, evaluates nothing and leaves the cache, flags included,
\* as it found it, so the next tick starts from the state the failed tick found.
C12_FailedFetchIsEmptyFeed ==
    hist.fetchFailed =>
        /\ PassOver
        /\ hist.nets = {}
        /\ hist.tickLog = << >>
        /\ hist.evald = {}
        /\ bcast = NoBcast
        /\ last_upgrades = hist.cache0

\* C12 witness: the fetch of the second tick fails while the cache holds a
\* network whose alert has been broadcast.
C12_Witness ==
    /\ hist.fetchFailed
    /\ PassOver
    /\ hist.ticks >= 2
    /\ \E p \in DOMAIN hist.fired : hist.fired[p] = 1 /\ CacheFlag(p[1], p[2])

\* C13: a pass whose feed has an allow-listed record with a missing or
\* unparsable estimated time never ends up in the error handler, and when it
\* is over (no broadcast having raised) every network of its feed is in the
\* cache and has had all its thresholds evaluated.
C13_UntimedNoError ==
    hist.untimed # {} =>
        /\ pc # "errsleep"
        /\ (PassOver /\ ~hist.excepted) =>
               /\ hist.nets \subseteq DOMAIN last_upgrades
               /\ hist.evald = AllEvaluations

\* A pass is in progress: check_upgrades has started and not yet returned.
InPass == pc # "idle"

C21_BroadcastCompletes ==
    /\ pc # "except"
    /\ bcast.status # "raised"
    /\ ~bcast.twice
    /\ pc = "after" => bcast.stable \subseteq bcast.attempted

-----------------------------------------------------------------------------
(* SpecClock: uninterrupted polling of one upgrade.  The feed reports the   *)
(* same record at every tick, a tick comes every POLL_INTERVAL_SECONDS, and *)
(* the first one comes at any phase relative to the upgrade time.           *)

ClockTime == TimeAt(25 * MinutesPerHour)

ClockResponse == [ok |-> TRUE, data |-> << Rec("cosmos", "v1", 100, ClockTime) >>]

ClockFile == FileOf(<< [key |-> << "1" >>, val |-> << "cosmos" >>] >>)

InitClock ==
    /\ now \in 0..(PollMinutes - 1)
    /\ last_upgrades = << >>
    /\ subsFile = ClockFile
    /\ chat_subscriptions = load_subscriptions(<< >>, subsFile)
    /\ PassIdle
    /\ cmds = 0
    /\ hist = NoHist
    /\ trk = NoCall
    /\ rt = NoTrip
    /\ replies = NoReplies
    /\ token = BotToken

\* A poll tick of SpecClock; the ticks go on until the first one after the
\* upgrade time.
ClockTick ==
    /\ now <= ClockTime.t
    /\ Tick(ClockResponse)

\* The feed always has a parsable time and no command runs: the pass neither
\* takes its error path nor has a broadcast raise.
NextClock ==
    \/ ClockTick
    \/ PassEnd
    \/ LoopHead
    \/ FireThreshold
    \/ SkipThreshold
    \/ BroadcastNext
    \/ \E ok \in BOOLEAN : SendDone(ok)
    \/ AfterBroadcast
    \/ StoreAlerts

SpecClock == InitClock /\ [][NextClock]_vars

\* C3: under uninterrupted polling that starts more than 24 h before the
\* upgrade, when the pass of the first tick after the upgrade time is over,
\* each of the three threshold alerts has been broadcast once.
C3_NoThresholdMissed ==
    (PassOver /\ now > ClockTime.t) =>
        \A i \in 1..NumThresholds : hist.fired[<< "cosmos", Thresholds[i].key >>] = 1

-----------------------------------------------------------------------------
(* SpecCodec: save_subscriptions and load_subscriptions on their own, from  *)
(* any registry and from any file the program has written.                  *)

MaxCodecChats == 2   \* chats in a registry of SpecCodec
TripLen == 2         \* operations in one run of SpecCodec

CodecIds == {0 - 12, 0, 10}

CodecEntries == { [id |-> c, nets |-> S] : c \in CodecIds, S \in SUBSET SubNets }

CodecRegistries ==
    { r \in SeqsUpTo(CodecEntries, MaxCodecChats) :
        \A i, j \in 1..Len(r) : i # j => r[i].id # r[j].id }

CodecFiles == { FileOf(d) : d \in UNION { SaveData(r) : r \in CodecRegistries } }

\* Either a registry and no file yet, or a file and the empty registry of a
\* process that has not loaded it yet.
CodecStarts ==
    { << r, NoFile >> : r \in CodecRegistries } \cup { << << >>, f >> : f \in CodecFiles }

InitCodec ==
    /\ now = 0
    /\ last_upgrades = << >>
    /\ \E st \in CodecStarts : chat_subscriptions = st[1] /\ subsFile = st[2]
    /\ PassIdle
    /\ cmds = 0
    /\ hist = NoHist
    /\ trk = NoCall
    /\ rt = NoTrip
    /\ replies = NoReplies
    /\ token = BotToken

\* The operations of a run so far, with the registry and file it began with.
Tripped(op) ==
    [ops |-> Append(rt.ops, op),
     reg |-> IF rt.ops = << >> THEN chat_subscriptions ELSE rt.reg,
     file |-> IF rt.ops = << >> THEN subsFile ELSE rt.file]

CodecSave ==
    /\ Len(rt.ops) < TripLen
    /\ subsFile' \in save_subscriptions(chat_subscriptions, subsFile, TRUE)
    /\ rt' = Tripped("save")
    /\ UNCHANGED << now, last_upgrades, chat_subscriptions, pc, relevant, h_left,
                    alerts_sent, stage, bcast, cmds, hist, trk, replies, token >>

CodecLoad ==
    /\ Len(rt.ops) < TripLen
    /\ chat_subscriptions' = load_subscriptions(chat_subscriptions, subsFile)
    /\ rt' = Tripped("load")
    /\ UNCHANGED << now, last_upgrades, subsFile, pc, relevant, h_left, alerts_sent,
                    stage, bcast, cmds, hist, trk, replies, token >>

NextCodec == CodecSave \/ CodecLoad

SpecCodec == InitCodec /\ [][NextCodec]_vars

\* A file as a mapping id -> set of names (no id is twice in a file the
\* program wrote).
FileMap(file) ==
    LET PlaceOf(c) == CHOOSE i \in 1..Len(file.data) : IntOfStr(file.data[i].key) = c
    IN  [c \in { IntOfStr(file.data[i].key) : i \in 1..Len(file.data) } |->
            SetOf(file.data[PlaceOf(c)].val)]

\* C9: save followed by load leaves a registry equal, as a dict, to the one
\* saved (empty sets included); load of an existing file followed by save
\* writes a file equal, as a mapping id -> set of names, to the one loaded.
C9_RoundTrip ==
    /\ rt.ops = << "save", "load" >> => AsMap(chat_subscriptions) = AsMap(rt.reg)
    /\ (rt.ops = << "load", "save" >> /\ rt.file.exists) =>
           FileMap(subsFile) = FileMap(rt.file)

\* C9 witness: a registry with a negative id, a chat with two names and a chat
\* with none has been saved and loaded again.
C9_Witness ==
    /\ rt.ops = << "save", "load" >>
    /\ \E i \in 1..Len(rt.reg) : rt.reg[i].id < 0 /\ Cardinality(rt.reg[i].nets) = 2
    /\ \E i \in 1..Len(rt.reg) : rt.reg[i].nets = {}
    /\ Len(chat_subscriptions) = 2

-----------------------------------------------------------------------------
(* SpecList: one /listupgrades command (main.py, list_upgrades) at a fixed  *)
(* clock, for any chat and any feed response.  The feed is not filtered by  *)
(* the allow-list here, and its network names go through .lower().          *)

MaxListFeedLen == 2
MaxListCmds == 1

DayMinutes == 24 * MinutesPerHour

\* The clock of the command.
ListNow == 3 * DayMinutes

\* Upgrade times around the limits of list_upgrades: a day ago to the minute
\* and a minute either side, an hour ago, now, and the same ahead.
ListTimes ==
    { TimeAt(ListNow + d) :
        d \in { 0 - DayMinutes - 1, 0 - DayMinutes, 1 - DayMinutes, 0 - MinutesPerHour,
                0, 1, DayMinutes, DayMinutes + 1 } }

ListRecords ==
    { Rec("cosmos", "v1", 100, e) : e \in ListTimes \cup {BadTime, NoneTime} }
    \cup { Rec("Osmosis", "v1", 100, TimeAt(ListNow + 1)),
           Rec(OtherNet, "v1", 100, TimeAt(ListNow + 1)),
           Rec(NoneNet, "v1", 100, TimeAt(ListNow + 1)) }

ListResponses ==
    { [ok |-> TRUE, data |-> f] : f \in SeqsUpTo(ListRecords, MaxListFeedLen) }
    \cup { [ok |-> FALSE, data |-> << >>] }

ListFile ==
    FileOf(<< [key |-> << "1" >>, val |-> << "cosmos" >>],
              [key |-> << "2" >>, val |-> << "osmosis", "cosmos" >>] >>)

InitList ==
    /\ now = ListNow
    /\ last_upgrades = << >>
    /\ subsFile \in {NoFile, ListFile}
    /\ chat_subscriptions = load_subscriptions(<< >>, subsFile)
    /\ PassIdle
    /\ cmds = 0
    /\ hist = NoHist
    /\ trk = NoCall
    /\ rt = NoTrip
    /\ replies = NoReplies
    /\ token = BotToken

ListCall(c, resp) ==
    /\ cmds < MaxListCmds
    /\ ListUpgradesReply(c, resp)

NextList == \E c \in Chats, resp \in ListResponses : ListCall(c, resp)

SpecList == InitList /\ [][NextList]_vars

-----------------------------------------------------------------------------
(* Claims about list_upgrades (SpecList)                                   *)

\* The observed call: it was made, by a chat that has subscriptions.
Listed == replies.listed.outcome # "none" /\ replies.listed.subs # {}

\* The records of the observed feed whose network the chat subscribes to.
ListedSubscribed ==
    LET IsSub(u) == u.network # NoneNet /\ Lower(u.network) \in replies.listed.subs
    IN  SelectSeq(replies.listed.feed, IsSub)

\* The networks of the blocks of the observed reply.
ItemNetworks ==
    { replies.listed.items[i].network : i \in 1..Len(replies.listed.items) }

\* C14: a feed record without a network never enters the cache, and a
\* list_upgrades call on a feed that has such a record (its other subscribed
\* records all having an estimated time) still replies, with a block for
\* every subscribed record that is not older than a day.
C14_NoNetworkDropped ==
    /\ NoneNet \notin DOMAIN last_upgrades
    /\ (/\ Listed
        /\ \E i \in 1..Len(replies.listed.feed) : replies.listed.feed[i].network = NoneNet
        /\ \A i \in 1..Len(ListedSubscribed) :
               ListedSubscribed[i].estimated_upgrade_time.kind # "none") =>
           /\ replies.listed.outcome # "raised"
           /\ \A i \in 1..Len(ListedSubscribed) :
                  ListStatus(hours_until_upgrade(
                      ListedSubscribed[i].estimated_upgrade_time, now).h) # "skip"
                  => ListedSubscribed[i].network \in ItemNetworks

\* The (network, time) pairs of a list of records or blocks, in order.
Pairs(l) == [i \in 1..Len(l) |-> << l[i].network, l[i].estimated_upgrade_time >>]

\* C15: a list_upgrades call that replies with a report lists, in feed order,
\* exactly the upgrades of the feed whose network the chat subscribes to and
\* whose h_left is at least -24 hours.
C15_ListedExactly ==
    (Listed /\ replies.listed.outcome = "report") =>
        LET NotStale(u) ==
                hours_until_upgrade(u.estimated_upgrade_time, now).h >= 0 - DayMinutes
        IN  Pairs(replies.listed.items) = Pairs(SelectSeq(ListedSubscribed, NotStale))

\* C19: for a record of the feed whose estimated time is missing or does not
\* parse, hours_until_upgrade gives a value it gives for no parsable time,
\* and the reply of list_upgrades has no block that shows such a record as
\* an upgrade that has started or is coming.
C19_UnknownIsDistinct ==
    Listed =>
        /\ \A i \in 1..Len(replies.listed.feed) :
              replies.listed.feed[i].estimated_upgrade_time.kind # "time" =>
                  \A t \in ListTimes :
                      hours_until_upgrade(replies.listed.feed[i].estimated_upgrade_time, now)
                          # hours_until_upgrade(t, now)
        /\ \A j \in 1..Len(replies.listed.items) :
              replies.listed.items[j].estimated_upgrade_time.kind # "time" =>
                  replies.listed.items[j].status \notin {"started", "hours", "days"}

-----------------------------------------------------------------------------
(* SpecStart: the process from its start.  main() calls build_application, *)
(* then registers the command handlers and the repeating job, then polls.   *)

Tokens == {NoToken, EmptyToken, BotToken}

\* Faulty variant for the sensitivity of C17: the token is not looked at.
TokenNotChecked(tok) == TRUE

\* `if not token` of build_application does not raise.
TokenPresent(tok) == tok.set /\ tok.value # ""

InitStart ==
    /\ now = 0
    /\ last_upgrades = << >>
    /\ subsFile \in InitFiles
    /\ chat_subscriptions = << >>
    /\ pc = "start"
    /\ relevant = << >>
    /\ h_left = 0
    /\ alerts_sent = PollFlags
    /\ stage = 1
    /\ bcast = NoBcast
    /\ cmds = 0
    /\ hist = NoHist
    /\ trk = NoCall
    /\ rt = NoTrip
    /\ replies = NoReplies
    /\ token \in Tokens

\* main() up to run_polling: build_application loads the subscriptions, then
\* raises ValueError when the token is missing, which ends the process before
\* any handler or job is registered.
BuildApplication ==
    /\ pc = "start"
    /\ chat_subscriptions' = load_subscriptions(chat_subscriptions, subsFile)
    /\ pc' = IF TokenPresent(token) THEN "idle" ELSE "refused"
    /\ UNCHANGED << now, last_upgrades, subsFile, relevant, h_left, alerts_sent, stage,
                    bcast, cmds, hist, trk, rt, replies, token >>

NextStart == BuildApplication \/ Next

SpecStart == InitStart /\ [][NextStart]_vars

\* C17: with TELEGRAM_BOT_TOKEN missing (unset or empty) the process never
\* gets past build_application: no command is handled, no poll tick runs, no
\* broadcast starts and no reply is sent.
C17_NoTokenNoStart ==
    token \in {NoToken, EmptyToken} =>
        /\ pc \in {"start", "refused"}
        /\ cmds = 0
        /\ hist.ticks = 0
        /\ bcast = NoBcast
        /\ replies = NoReplies

\* C17 witness: the process has refused to start for want of a token, after
\* it had loaded a subscriptions file with subscribers in it.
C17_Witness ==
    /\ pc = "refused"
    /\ token = NoToken
    /\ chat_subscriptions # << >>

-----------------------------------------------------------------------------
(* SpecCommands: the commands alone, no poll tick, with writes of           *)
(* subscriptions.json that may fail.                                        *)

MaxCmdsAlone == 3

\* Whether the write of subscriptions.json succeeds, here either way.
SaveEitherWay == BOOLEAN

\* list_command: it reads chat_subscriptions and replies; nothing changes.
ListCommand(c) ==
    /\ PollYields
    /\ cmds' = cmds + 1
    /\ UNCHANGED << now, last_upgrades, chat_subscriptions, subsFile, pc, relevant,
                    h_left, alerts_sent, stage, bcast, hist, trk, rt, replies, token >>

SubscribeAlone(c, args, saveOk) ==
    /\ cmds < MaxCmdsAlone
    /\ SubscribeCommand(c, args, saveOk)

UnsubscribeAlone(c, args, saveOk) ==
    /\ cmds < MaxCmdsAlone
    /\ UnsubscribeCommand(c, args, saveOk)

ListAlone(c) ==
    /\ cmds < MaxCmdsAlone
    /\ ListCommand(c)

ListUpgradesAlone(c) ==
    /\ cmds < MaxCmdsAlone
    /\ ListUpgradesRegistry(c)
    /\ UNCHANGED replies

NextCommands ==
    \/ \E c \in Chats, args \in ArgLists, ok \in SaveEitherWay : SubscribeAlone(c, args, ok)
    \/ \E c \in Chats, args \in ArgLists, ok \in SaveEitherWay : UnsubscribeAlone(c, args, ok)
    \/ \E c \in Chats : ListAlone(c)
    \/ \E c \in Chats : ListUpgradesAlone(c)

SpecCommands == Init /\ [][NextCommands]_vars

\* C20: a subscription acknowledged to a chat is in the in-memory registry
\* until the chat's unsubscription of it is acknowledged, and an acknowledged
\* unsubscription is out of it until a subscription is acknowledged again.
C20_AckedStays ==
    /\ \A p \in replies.acked : p[2] \in SubsOf(chat_subscriptions, p[1])
    /\ \A p \in replies.unacked : p[2] \notin SubsOf(chat_subscriptions, p[1])

====
